---- MODULE Spec2Model ----
(***************************************************************************)
(* smol-macros: the executor bootstrap behind main!/test!.                 *)
(*                                                                         *)
(*   MainExecutor::with_main   src/src/lib.rs 232-264                      *)
(*   with_thread_pool          src/src/lib.rs 268-295                      *)
(*   WaitForStop (new/wait/stop) src/src/lib.rs 298-340                    *)
(*                                                                         *)
(* Every with_main invocation ("call") has its own calling thread, its own *)
(* WaitForStop and its own scoped worker threads, so the state is indexed  *)
(* by the call.  A worker thread runs block_on(ex.run(stopper.wait())):    *)
(* its position is the step of wait() it is at.                            *)
(***************************************************************************)
EXTENDS Naturals, FiniteSets

\* Largest value thread::available_parallelism() reports in the model.
MaxThreads == 2
\* The with_main invocations the state has room for.
Calls == {"first", "second"}
Workers == 0..(MaxThreads - 1)

\* The four types MainExecutor is implemented for.
Kinds == {"Arc<Executor>", "Executor", "Rc<LocalExecutor>", "LocalExecutor"}

\* What the driving function can return (T is generic) and panic with.
FValues == {"42", "Err(e)"}
FPanics == {"boom"}
SpawnPanic == "failed to spawn thread"

\* io::Result<NonZeroUsize> of thread::available_parallelism().
Parallelism ==
    {[ok |-> FALSE, num |-> 0]} \cup {[ok |-> TRUE, num |-> n] : n \in 1..MaxThreads}

None == [tag |-> "None", val |-> ""]
Ok(v) == [tag |-> "Ok", val |-> v]
Err(p) == [tag |-> "Err", val |-> p]

VARIABLES
    callers,      \* the calls that may be made in this run
    mpc,          \* calling thread: its position in with_main / with_thread_pool
    kind,         \* the Self type with_main was called on
    created,      \* WaitForStop::new() has run for this call
    stopped,      \* WaitForStop.stopped
    events,       \* WaitForStop.events: listeners registered and not yet notified
    notified,     \* listeners notified and not yet consumed by their waiter
    detected,     \* what available_parallelism() returned
    num_threads,  \* num_threads of with_thread_pool
    i,            \* loop variable of the spawn loop
    wpc,          \* worker thread: "none" or its position in wait()
    view,         \* worker's view of the store to stopped: "none", "seen", "hb"
    fcalls,       \* how often the driving function was invoked
    pool_at_call, \* the worker threads that existed when f was invoked
    result,       \* result of catch_unwind(f), or of f itself for the local kinds
    closure,      \* how the closure given to thread::scope ended
    out,          \* what with_main handed to its caller
    raced,        \* running waiters whose first check preceded and whose registration
                  \* followed all of stop()
    late,         \* running waiters that started wait() after stop() had returned
    stop_calls,   \* how many stop() calls have stored to the signal
    flips,        \* how often stopped went from false to true
    overlapped,   \* a stop() call stored while another was between store and notify
    spc,          \* a second caller of stop() on the signal: "off" when there is none
    task,         \* the task the driving function spawned on the executor, if any
    waits         \* how the driving function waits for it: "handle" or "barrier"

signal_vars == <<created, stopped, events, notified>>
worker_vars == <<wpc, view>>
main_vars == <<mpc, kind, detected, num_threads, i, fcalls, pool_at_call,
               result, closure, out>>
count_vars == <<stop_calls, flips, overlapped>>
hist_vars == <<raced, late, count_vars>>
task_vars == <<task, waits>>
env_vars == <<callers, spc, task_vars>>
vars == <<env_vars, signal_vars, worker_vars, main_vars, hist_vars>>

----------------------------------------------------------------------------
\* Pure parts of the code.

\* with_main of the two Executor kinds goes through with_thread_pool.
IsPooledAll(k) == TRUE
IsPooled(k) == k \in {"Arc<Executor>", "Executor"}

\* thread::available_parallelism().map_or(1, |num| num.get())
NumThreadsNoFallback(r) == r.num
NumThreads(r) == IF r.ok THEN r.num ELSE 1

\* self.events.notify_additional(usize::MAX): the listeners it notifies.
NotifyNobody(listeners) == {}
NotifyAdditional(listeners) == listeners

\* self.stopped.store(true, Ordering::SeqCst): the value stopped has afterwards.
StoreToggled(old) == ~old
StoreKept(old) == old
StoreTrue(old) == TRUE

\* First check: if self.stopped.load(Ordering::Relaxed) { return; }
WaitReturnsUnchecked(flag) == TRUE
WaitReturnsInverted(flag) == ~flag
WaitReturns(flag) == flag

\* Second check, after the registration:
\* if self.stopped.load(Ordering::Acquire) { return; }
RecheckSkipped(flag) == FALSE
RecheckReturns(flag) == flag

\* match result { Ok(value) => value, Err(err) => resume_unwind(err) }
MatchResultNewPanic(res) == IF res.tag = "Err" THEN Err("explicit panic") ELSE res
MatchResultUnit(res) == IF res.tag = "Ok" THEN Ok("()") ELSE res
MatchResult(res) == res

\* The worker threads of call c that were spawned.
Spawned(c) == {w \in Workers : wpc[c][w] # "none"}

\* thread::scope returns only when every thread spawned in it has finished.
ScopeDetached(c) == TRUE
ScopeJoined(c) == \A w \in Spawned(c) : wpc[c][w] = "finished"

\* The values a load of stopped by worker w can return.  The store is SeqCst,
\* the loads are Relaxed and Acquire: a worker that has not yet synchronised
\* with the store (view "none") may still read the old value.
Loads(c, w) ==
    IF stopped[c] /\ view[c][w] = "none" THEN {FALSE, TRUE} ELSE {stopped[c]}

----------------------------------------------------------------------------
\* Nothing has been called yet: every call is idle and has no signal, no
\* worker and no result.
InitState ==
    /\ mpc = [c \in Calls |-> "idle"]
    /\ kind = [c \in Calls |-> "none"]
    /\ created = [c \in Calls |-> FALSE]
    /\ stopped = [c \in Calls |-> FALSE]
    /\ events = [c \in Calls |-> {}]
    /\ notified = [c \in Calls |-> {}]
    /\ detected = [c \in Calls |-> [ok |-> FALSE, num |-> 0]]
    /\ num_threads = [c \in Calls |-> 0]
    /\ i = [c \in Calls |-> 0]
    /\ wpc = [c \in Calls |-> [w \in Workers |-> "none"]]
    /\ view = [c \in Calls |-> [w \in Workers |-> "none"]]
    /\ fcalls = [c \in Calls |-> 0]
    /\ pool_at_call = [c \in Calls |-> {}]
    /\ result = [c \in Calls |-> None]
    /\ closure = [c \in Calls |-> None]
    /\ out = [c \in Calls |-> None]
    /\ raced = [c \in Calls |-> {}]
    /\ late = [c \in Calls |-> {}]
    /\ stop_calls = [c \in Calls |-> 0]
    /\ flips = [c \in Calls |-> 0]
    /\ overlapped = [c \in Calls |-> FALSE]
    /\ task = [c \in Calls |-> "none"]
    /\ waits = [c \in Calls |-> "none"]

\* One with_main call, and nobody besides with_thread_pool calls stop().
Init ==
    /\ callers = {"first"}
    /\ spc = [c \in Calls |-> "off"]
    /\ InitState

----------------------------------------------------------------------------
\* The calling thread.

\* <K as MainExecutor>::with_main(f): the executor is created; the Executor
\* kinds enter with_thread_pool, the LocalExecutor kinds go straight to f.
with_main(c, k) ==
    /\ c \in callers
    /\ mpc[c] = "idle"
    /\ kind' = [kind EXCEPT ![c] = k]
    /\ mpc' = [mpc EXCEPT ![c] = IF IsPooled(k) THEN "new" ELSE "call_f"]
    /\ UNCHANGED <<env_vars, signal_vars, worker_vars, detected, num_threads, i,
                   fcalls, pool_at_call, result, closure, out, hist_vars>>

\* let stopper = WaitForStop::new();
WaitForStop_new(c) ==
    /\ mpc[c] = "new"
    /\ created' = [created EXCEPT ![c] = TRUE]
    /\ stopped' = [stopped EXCEPT ![c] = FALSE]
    /\ events' = [events EXCEPT ![c] = {}]
    /\ notified' = [notified EXCEPT ![c] = {}]
    /\ mpc' = [mpc EXCEPT ![c] = "detect"]
    /\ UNCHANGED <<env_vars, worker_vars, kind, detected, num_threads, i, fcalls,
                   pool_at_call, result, closure, out, hist_vars>>

\* let num_threads = thread::available_parallelism().map_or(1, |num| num.get());
available_parallelism(c, r) ==
    /\ mpc[c] = "detect"
    /\ detected' = [detected EXCEPT ![c] = r]
    /\ num_threads' = [num_threads EXCEPT ![c] = NumThreads(r)]
    /\ i' = [i EXCEPT ![c] = 0]
    /\ mpc' = [mpc EXCEPT ![c] = "spawn"]
    /\ UNCHANGED <<env_vars, signal_vars, worker_vars, kind, fcalls, pool_at_call,
                   result, closure, out, hist_vars>>

\* One iteration of the loop whose spawn_scoped succeeds: thread i starts
\* block_on(ex.run(stopper.wait())).
spawn_scoped(c) ==
    /\ mpc[c] = "spawn"
    /\ i[c] < num_threads[c]
    /\ wpc' = [wpc EXCEPT ![c][i[c]] = "check1"]
    /\ i' = [i EXCEPT ![c] = i[c] + 1]
    /\ UNCHANGED <<env_vars, signal_vars, view, mpc, kind, detected, num_threads,
                   fcalls, pool_at_call, result, closure, out, hist_vars>>

\* One iteration whose spawn_scoped fails: .expect("failed to spawn thread")
\* panics and the closure given to thread::scope unwinds.
spawn_failed_ignored(c) ==
    /\ mpc[c] = "spawn"
    /\ i[c] < num_threads[c]
    /\ i' = [i EXCEPT ![c] = i[c] + 1]
    /\ UNCHANGED <<env_vars, signal_vars, worker_vars, mpc, kind, detected,
                   num_threads, fcalls, pool_at_call, result, closure, out, hist_vars>>

spawn_failed(c) ==
    /\ mpc[c] = "spawn"
    /\ i[c] < num_threads[c]
    /\ closure' = [closure EXCEPT ![c] = Err(SpawnPanic)]
    /\ mpc' = [mpc EXCEPT ![c] = "scope_wait"]
    /\ UNCHANGED <<env_vars, signal_vars, worker_vars, kind, detected, num_threads,
                   i, fcalls, pool_at_call, result, out, hist_vars>>

\* The loop is over: catch_unwind(AssertUnwindSafe(f)) invokes f.  For the
\* local kinds this is the call f(&LocalExecutor::new()).
call_f(c) ==
    /\ \/ mpc[c] = "spawn" /\ i[c] = num_threads[c]
       \/ mpc[c] = "call_f"
    /\ fcalls' = [fcalls EXCEPT ![c] = fcalls[c] + 1]
    /\ pool_at_call' = [pool_at_call EXCEPT ![c] = Spawned(c)]
    /\ mpc' = [mpc EXCEPT ![c] = "in_f"]
    /\ UNCHANGED <<env_vars, signal_vars, worker_vars, kind, detected, num_threads,
                   i, result, closure, out, hist_vars>>

\* f ends with res (a value or a panic).  with_thread_pool captures it and
\* goes on to stopper.stop(); the local kinds hand it to the caller as it is.
f_ends_uncaught(c, res) ==
    /\ mpc[c] \in {"in_f", "f_after"}
    /\ result' = [result EXCEPT ![c] = res]
    /\ IF IsPooled(kind[c])
         THEN /\ mpc' = [mpc EXCEPT ![c] = IF res.tag = "Ok" THEN "stop_store" ELSE "scope_wait"]
              /\ closure' = [closure EXCEPT ![c] = IF res.tag = "Ok" THEN @ ELSE res]
              /\ out' = out
         ELSE /\ mpc' = [mpc EXCEPT ![c] = IF res.tag = "Ok" THEN "returned" ELSE "panicked"]
              /\ closure' = closure
              /\ out' = [out EXCEPT ![c] = res]
    /\ UNCHANGED <<env_vars, signal_vars, worker_vars, kind, detected, num_threads,
                   i, fcalls, pool_at_call, hist_vars>>

f_ends(c, res) ==
    /\ mpc[c] \in {"in_f", "f_after"}
    /\ result' = [result EXCEPT ![c] = res]
    /\ IF IsPooled(kind[c])
         THEN /\ mpc' = [mpc EXCEPT ![c] = "stop_store"]
              /\ out' = out
         ELSE /\ mpc' = [mpc EXCEPT ![c] = IF res.tag = "Ok" THEN "returned" ELSE "panicked"]
              /\ out' = [out EXCEPT ![c] = res]
    /\ UNCHANGED <<env_vars, signal_vars, worker_vars, kind, detected, num_threads,
                   i, fcalls, pool_at_call, closure, hist_vars>>

f_returns(c) == \E v \in FValues : f_ends(c, Ok(v))
f_panics(c) == \E p \in FPanics : f_ends(c, Err(p))

\* stop(), first half: self.stopped.store(true, Ordering::SeqCst);
stop_store_all(c) ==
    /\ mpc[c] = "stop_store"
    /\ stopped' = [d \in Calls |-> IF d = c \/ created[d] THEN TRUE ELSE stopped[d]]
    /\ stop_calls' = [stop_calls EXCEPT ![c] = @ + 1]
    /\ flips' = [flips EXCEPT ![c] = IF ~stopped[c] THEN @ + 1 ELSE @]
    /\ overlapped' = [overlapped EXCEPT ![c] = @ \/ spc[c] = "notify"]
    /\ raced' = [raced EXCEPT ![c] = {w \in Workers : wpc[c][w] = "register"}]
    /\ mpc' = [mpc EXCEPT ![c] = "stop_notify"]
    /\ UNCHANGED <<env_vars, created, events, notified, worker_vars, kind, detected,
                   num_threads, i, fcalls, pool_at_call, result, closure, out, late>>

stop_store(c) ==
    /\ mpc[c] = "stop_store"
    /\ stopped' = [stopped EXCEPT ![c] = StoreTrue(@)]
    /\ stop_calls' = [stop_calls EXCEPT ![c] = @ + 1]
    /\ flips' = [flips EXCEPT ![c] = IF ~stopped[c] /\ stopped'[c] THEN @ + 1 ELSE @]
    /\ overlapped' = [overlapped EXCEPT ![c] = @ \/ spc[c] = "notify"]
    /\ raced' = [raced EXCEPT ![c] = {w \in Workers : wpc[c][w] = "register"}]
    /\ mpc' = [mpc EXCEPT ![c] = "stop_notify"]
    /\ UNCHANGED <<env_vars, created, events, notified, worker_vars, kind, detected,
                   num_threads, i, fcalls, pool_at_call, result, closure, out, late>>

\* stop(), second half: self.events.notify_additional(usize::MAX);
stop_notify(c) ==
    /\ mpc[c] = "stop_notify"
    /\ notified' = [notified EXCEPT ![c] = notified[c] \cup NotifyAdditional(events[c])]
    /\ events' = [events EXCEPT ![c] = events[c] \ NotifyAdditional(events[c])]
    /\ raced' = [raced EXCEPT ![c] = {w \in raced[c] : wpc[c][w] = "register"}]
    /\ late' = [late EXCEPT ![c] = {w \in Workers : wpc[c][w] = "check1"}]
    /\ mpc' = [mpc EXCEPT ![c] = "match"]
    /\ UNCHANGED <<env_vars, created, stopped, worker_vars, kind, detected,
                   num_threads, i, fcalls, pool_at_call, result, closure, out, count_vars>>

\* match result { Ok(value) => value, Err(err) => resume_unwind(err) }: the
\* closure given to thread::scope ends, with the value or unwinding.
match_result(c) ==
    /\ mpc[c] = "match"
    /\ closure' = [closure EXCEPT ![c] = MatchResult(result[c])]
    /\ mpc' = [mpc EXCEPT ![c] = "scope_wait"]
    /\ UNCHANGED <<env_vars, signal_vars, worker_vars, kind, detected, num_threads,
                   i, fcalls, pool_at_call, result, out, hist_vars>>

\* thread::scope, after its closure ended: it waits until every scoped thread
\* has finished, then returns the closure's value or resumes its panic.
scope_exit(c) ==
    /\ mpc[c] = "scope_wait"
    /\ ScopeJoined(c)
    /\ out' = [out EXCEPT ![c] = closure[c]]
    /\ mpc' = [mpc EXCEPT ![c] = IF closure[c].tag = "Ok" THEN "returned" ELSE "panicked"]
    /\ UNCHANGED <<env_vars, signal_vars, worker_vars, kind, detected, num_threads,
                   i, fcalls, pool_at_call, result, closure, hist_vars>>

----------------------------------------------------------------------------
\* A worker thread: block_on(ex.run(stopper.wait())).

\* if self.stopped.load(Ordering::Relaxed) { return; }
wait_check1(c, w) ==
    /\ wpc[c][w] = "check1"
    /\ \E flag \in Loads(c, w) :
         /\ wpc' = [wpc EXCEPT ![c][w] = IF WaitReturns(flag) THEN "returned" ELSE "register"]
         /\ view' = [view EXCEPT ![c][w] = IF flag /\ @ = "none" THEN "seen" ELSE @]
    /\ UNCHANGED <<env_vars, signal_vars, main_vars, hist_vars>>

\* event_listener::listener!(&self.events => listener);  The registration ends
\* with a SeqCst fence: a store to stopped that precedes it is visible after it.
wait_unregistered(c, w) ==
    /\ wpc[c][w] = "register"
    /\ wpc' = [wpc EXCEPT ![c][w] = "check2"]
    /\ UNCHANGED <<env_vars, signal_vars, view, main_vars, hist_vars>>

wait_register(c, w) ==
    /\ wpc[c][w] = "register"
    /\ events' = [events EXCEPT ![c] = @ \cup {w}]
    /\ view' = [view EXCEPT ![c][w] = IF stopped[c] /\ @ = "none" THEN "seen" ELSE @]
    /\ wpc' = [wpc EXCEPT ![c][w] = "check2"]
    /\ UNCHANGED <<env_vars, created, stopped, notified, main_vars, hist_vars>>

\* if self.stopped.load(Ordering::Acquire) { return; }  Returning drops the
\* listener; otherwise the waiter goes on to listener.await.
wait_check2(c, w) ==
    /\ wpc[c][w] = "check2"
    /\ \E flag \in Loads(c, w) :
         IF RecheckReturns(flag)
           THEN /\ wpc' = [wpc EXCEPT ![c][w] = "returned"]
                /\ view' = [view EXCEPT ![c][w] = "hb"]
                /\ events' = [events EXCEPT ![c] = @ \ {w}]
                /\ notified' = [notified EXCEPT ![c] = @ \ {w}]
           ELSE /\ wpc' = [wpc EXCEPT ![c][w] = "await"]
                /\ UNCHANGED <<view, events, notified>>
    /\ UNCHANGED <<env_vars, created, stopped, main_vars, hist_vars>>

\* listener.await completes: the listener was notified; the loop starts over.
wait_woken_resets(c, w) ==
    /\ wpc[c][w] = "await"
    /\ w \in notified[c]
    /\ notified' = [notified EXCEPT ![c] = @ \ {w}]
    /\ stopped' = [stopped EXCEPT ![c] = FALSE]
    /\ view' = [view EXCEPT ![c][w] = "hb"]
    /\ wpc' = [wpc EXCEPT ![c][w] = "check1"]
    /\ UNCHANGED <<env_vars, created, events, main_vars, hist_vars>>

wait_woken(c, w) ==
    /\ wpc[c][w] = "await"
    /\ w \in notified[c]
    /\ notified' = [notified EXCEPT ![c] = @ \ {w}]
    /\ view' = [view EXCEPT ![c][w] = "hb"]
    /\ wpc' = [wpc EXCEPT ![c][w] = "check1"]
    /\ UNCHANGED <<env_vars, created, stopped, events, main_vars, hist_vars>>

\* wait() returned, so ex.run and block_on return and the thread finishes.
worker_exit(c, w) ==
    /\ wpc[c][w] = "returned"
    /\ wpc' = [wpc EXCEPT ![c][w] = "finished"]
    /\ raced' = [raced EXCEPT ![c] = @ \ {w}]
    /\ late' = [late EXCEPT ![c] = @ \ {w}]
    /\ UNCHANGED <<env_vars, signal_vars, view, main_vars, count_vars>>

----------------------------------------------------------------------------
\* The steps of with_thread_pool other than the detection of the parallelism.
PoolStep(c) ==
    \/ WaitForStop_new(c)
    \/ spawn_scoped(c)
    \/ spawn_failed(c)
    \/ call_f(c)
    \/ stop_store(c)
    \/ stop_notify(c)
    \/ match_result(c)
    \/ scope_exit(c)

MainStep(c) ==
    \/ \E r \in Parallelism : available_parallelism(c, r)
    \/ PoolStep(c)

WorkerStep(c, w) ==
    \/ wait_check1(c, w)
    \/ wait_register(c, w)
    \/ wait_check2(c, w)
    \/ wait_woken(c, w)
    \/ worker_exit(c, w)

Next ==
    \/ \E c \in Calls, k \in Kinds : with_main(c, k)
    \/ \E c \in Calls : MainStep(c)
    \/ \E c \in Calls : f_returns(c)
    \/ \E c \in Calls : f_panics(c)
    \/ \E c \in Calls, w \in Workers : WorkerStep(c, w)

Spec == Init /\ [][Next]_vars

\* Threads that can take a step are scheduled; the driving function is not
\* required to end, and nobody is required to call with_main.
Fairness ==
    /\ \A c \in Calls : WF_vars(MainStep(c))
    /\ \A c \in Calls, w \in Workers : WF_vars(WorkerStep(c, w))

FairSpec == Spec /\ Fairness

----------------------------------------------------------------------------
\* The driving function the main! and test! macros build: the body runs in
\* block_on(ex.run(async { .. })) on the calling thread.  As in the tests and
\* the examples it spawns a task on the executor and waits for it, either by
\* awaiting the task's handle or by meeting it at a two-party barrier.

\* Largest parallelism detected in the runs that spawn a task.
TaskPool == 1
TaskHosts == {r \in Parallelism : r.num <= TaskPool}
WaitModes == {"handle", "barrier"}

\* block_on(ex.run(body)): while the body is suspended the calling thread
\* runs the executor's tasks.
MainIdles(c) == FALSE
MainDrives(c) == mpc[c] = "f_wait"

\* A thread is inside ex.run with nothing else to do: the calling thread, or a
\* worker whose wait() future is pending.
CanRun(c) == MainDrives(c) \/ \E w \in Workers : wpc[c][w] = "await"

\* ex.spawn(async { .. })
f_spawn(c, m) ==
    /\ mpc[c] = "in_f"
    /\ task[c] = "none"
    /\ task' = [task EXCEPT ![c] = "queued"]
    /\ waits' = [waits EXCEPT ![c] = m]
    /\ mpc' = [mpc EXCEPT ![c] = "f_spawned"]
    /\ UNCHANGED <<callers, spc, signal_vars, worker_vars, kind, detected, num_threads,
                   i, fcalls, pool_at_call, result, closure, out, hist_vars>>

\* The body reaches its wait: task.await is ready if the task has finished;
\* barrier.wait() is ready if the task already waits at the barrier (the body
\* is the second to arrive and releases the task).  Otherwise it suspends.
f_reach_wait(c) ==
    /\ mpc[c] = "f_spawned"
    /\ IF waits[c] = "handle"
         THEN /\ mpc' = [mpc EXCEPT ![c] = IF task[c] = "done" THEN "f_after" ELSE "f_wait"]
              /\ task' = task
         ELSE /\ mpc' = [mpc EXCEPT ![c] = IF task[c] = "parked" THEN "f_after" ELSE "f_wait"]
              /\ task' = [task EXCEPT ![c] = IF @ = "parked" THEN "woken" ELSE @]
    /\ UNCHANGED <<callers, spc, waits, signal_vars, worker_vars, kind, detected,
                   num_threads, i, fcalls, pool_at_call, result, closure, out, hist_vars>>

\* A thread inside ex.run polls the task.  A task that is awaited runs to its
\* end.  A task that meets the body at the barrier finishes if the body
\* already waits there or if it was released; otherwise it suspends there.
task_run(c) ==
    /\ CanRun(c)
    /\ task[c] \in {"queued", "woken"}
    /\ task' = [task EXCEPT ![c] =
                  IF waits[c] = "barrier" /\ @ = "queued" /\ mpc[c] # "f_wait"
                    THEN "parked" ELSE "done"]
    /\ UNCHANGED <<callers, spc, waits, signal_vars, worker_vars, main_vars, hist_vars>>

\* The suspended body is woken: the task finished, or arrived at the barrier.
f_wake(c) ==
    /\ mpc[c] = "f_wait"
    /\ task[c] = "done"
    /\ mpc' = [mpc EXCEPT ![c] = "f_after"]
    /\ UNCHANGED <<env_vars, signal_vars, worker_vars, kind, detected, num_threads,
                   i, fcalls, pool_at_call, result, closure, out, hist_vars>>

TaskStep(c) ==
    \/ f_reach_wait(c)
    \/ task_run(c)
    \/ f_wake(c)

TaskMainStep(c) ==
    \/ \E r \in TaskHosts : available_parallelism(c, r)
    \/ PoolStep(c)

TaskNext ==
    \/ \E c \in Calls, k \in Kinds : with_main(c, k)
    \/ \E c \in Calls : TaskMainStep(c)
    \/ \E c \in Calls : f_returns(c)
    \/ \E c \in Calls : f_panics(c)
    \/ \E c \in Calls, w \in Workers : WorkerStep(c, w)
    \/ \E c \in Calls, m \in WaitModes : f_spawn(c, m)
    \/ \E c \in Calls : TaskStep(c)

TaskFairness ==
    /\ \A c \in Calls : WF_vars(TaskMainStep(c))
    /\ \A c \in Calls, w \in Workers : WF_vars(WorkerStep(c, w))
    /\ \A c \in Calls : WF_vars(TaskStep(c))

TaskSpec == Init /\ [][TaskNext]_vars /\ TaskFairness

----------------------------------------------------------------------------
\* stop() called a second time on the same signal, by another thread that
\* holds a reference to it, at any moment after WaitForStop::new().

\* Second caller, first half: self.stopped.store(true, Ordering::SeqCst);
stop2_store(c) ==
    /\ spc[c] = "ready"
    /\ created[c]
    /\ stopped' = [stopped EXCEPT ![c] = StoreTrue(@)]
    /\ stop_calls' = [stop_calls EXCEPT ![c] = @ + 1]
    /\ flips' = [flips EXCEPT ![c] = IF ~stopped[c] /\ stopped'[c] THEN @ + 1 ELSE @]
    /\ overlapped' = [overlapped EXCEPT ![c] = @ \/ mpc[c] = "stop_notify"]
    /\ spc' = [spc EXCEPT ![c] = "notify"]
    /\ UNCHANGED <<callers, task_vars, created, events, notified, worker_vars,
                   main_vars, raced, late>>

\* Second caller, second half: self.events.notify_additional(usize::MAX);
stop2_notify(c) ==
    /\ spc[c] = "notify"
    /\ notified' = [notified EXCEPT ![c] = notified[c] \cup NotifyAdditional(events[c])]
    /\ events' = [events EXCEPT ![c] = events[c] \ NotifyAdditional(events[c])]
    /\ spc' = [spc EXCEPT ![c] = "done"]
    /\ UNCHANGED <<callers, task_vars, created, stopped, worker_vars, main_vars,
                   hist_vars>>

TwoStopInit ==
    /\ callers = {"first"}
    /\ spc = [c \in Calls |-> IF c \in callers THEN "ready" ELSE "off"]
    /\ InitState

TwoStopNext ==
    \/ Next
    \/ \E c \in Calls : stop2_store(c)
    \/ \E c \in Calls : stop2_notify(c)

TwoStopSpec == TwoStopInit /\ [][TwoStopNext]_vars

----------------------------------------------------------------------------
\* Shorthands used by the properties.

Waiting == {"check1", "register", "check2", "await"}
Left == {"returned", "finished"}
HandedBack == {"returned", "panicked"}
AfterStop == {"match", "scope_wait", "returned", "panicked"}

\* stop() has been entered, or has already run.
StopCalled(c) == mpc[c] \in {"stop_store", "stop_notify"} \/ stopped[c]

----------------------------------------------------------------------------
\* Two with_thread_pool invocations in one process, each on its own calling
\* thread: any interleaving of their steps, one finishing before the other
\* starts included.  Both run on a host where available_parallelism() fails.
TwoCallKinds == {k \in Kinds : IsPooled(k)}
TwoCallHosts == {[ok |-> FALSE, num |-> 0]}

TwoCallInit ==
    /\ callers = Calls
    /\ spc = [c \in Calls |-> "off"]
    /\ InitState

TwoCallNext ==
    \/ \E c \in Calls, k \in TwoCallKinds : with_main(c, k)
    \/ \E c \in Calls, r \in TwoCallHosts : available_parallelism(c, r)
    \/ \E c \in Calls : PoolStep(c)
    \/ \E c \in Calls : f_returns(c)
    \/ \E c \in Calls : f_panics(c)
    \/ \E c \in Calls, w \in Workers : WorkerStep(c, w)

TwoCallSpec == TwoCallInit /\ [][TwoCallNext]_vars

----------------------------------------------------------------------------
\* C1 (no lost wakeup): once stop() is called on a signal, every wait() call
\* on it that is in progress or still to start eventually returns, whatever
\* step the waiter is at when the store and the notification happen.
C1_NoLostWakeup ==
    \A c \in Calls :
        StopCalled(c) ~> (\A w \in Workers : wpc[c][w] \notin Waiting)

\* stop() ran entirely between one waiter's first check and its registration,
\* another waiter started wait() only after stop() had returned, and both
\* wait() calls have returned.
C1_Witness ==
    \E c \in Calls, w1 \in Workers, w2 \in Workers :
        /\ mpc[c] \in AfterStop
        /\ w1 \in raced[c] /\ wpc[c][w1] = "returned"
        /\ w2 \in late[c] /\ wpc[c][w2] = "returned"

\* C2 (wait returns only on a true flag): a wait() call that has returned did
\* so while stopped was true, and wait() returns only out of one of its two
\* flag checks: a waiter whose listener.await completed goes back to the first
\* check instead of returning.
C2_ReturnsOnlyStopped ==
    /\ [](\A c \in Calls, w \in Workers : wpc[c][w] \in Left => stopped[c])
    /\ [][\A c \in Calls, w \in Workers :
            /\ (wpc[c][w] # "returned" /\ wpc'[c][w] = "returned")
                   => (stopped[c] /\ wpc[c][w] \in {"check1", "check2"})
            /\ (wpc[c][w] = "await" /\ wpc'[c][w] # "await")
                   => wpc'[c][w] = "check1"]_vars

\* One waiter has returned while another, woken by the notification, is back
\* at its first check.
C2_Witness ==
    \E c \in Calls, w1 \in Workers, w2 \in Workers :
        /\ wpc[c][w1] = "returned"
        /\ wpc[c][w2] = "check1" /\ view[c][w2] = "hb"

\* C3 (no worker outlives the call): when with_thread_pool has handed control
\* back, by a value or by a panic, every worker thread it spawned has finished.
C3_NoWorkerOutlives ==
    \A c \in Calls :
        mpc[c] \in HandedBack => \A w \in Workers : wpc[c][w] \in {"none", "finished"}

\* A call that spawned workers has propagated a panic.
C3_Witness ==
    \E c \in Calls : mpc[c] = "panicked" /\ Spawned(c) # {}

\* C4 (panic after teardown): when the driving function of a pooled call has
\* panicked and the call has handed control back, it did so by that same
\* panic, stop() has run, and all num_threads workers were spawned and have
\* finished.
C4_PanicAfterTeardown ==
    \A c \in Calls :
        (IsPooled(kind[c]) /\ result[c].tag = "Err" /\ mpc[c] \in HandedBack)
            => /\ mpc[c] = "panicked"
               /\ out[c] = result[c]
               /\ stopped[c]
               /\ Spawned(c) = 0..(num_threads[c] - 1)
               /\ \A w \in Spawned(c) : wpc[c][w] = "finished"

\* The driving function panicked with "boom" beside a full pool, and the
\* caller has observed the panic.
C4_Witness ==
    \E c \in Calls :
        /\ mpc[c] = "panicked" /\ result[c] = Err("boom")
        /\ Cardinality(Spawned(c)) = MaxThreads

\* C5 (bootstrap termination): once the driving function of a pooled call has
\* ended, with_main eventually hands control back to its caller.
C5_BootstrapTerminates ==
    \A c \in Calls :
        (IsPooled(kind[c]) /\ mpc[c] = "stop_store") ~> (mpc[c] \in HandedBack)

\* A pooled call has returned after joining a worker that left wait() at its
\* first check and another that left it after synchronising with stop() (at
\* the second check or through the notification).
C5_Witness ==
    \E c \in Calls, w1 \in Workers, w2 \in Workers :
        /\ mpc[c] = "returned" /\ IsPooled(kind[c])
        /\ wpc[c][w1] = "finished" /\ view[c][w1] = "seen"
        /\ wpc[c][w2] = "finished" /\ view[c][w2] = "hb"

C7_ShutdownOnEveryExit ==
    \A c \in Calls :
        (mpc[c] \in {"scope_wait", "returned", "panicked"} /\ Spawned(c) # {})
            => stopped[c]

\* C8 (pool sizing): num_threads is the detected parallelism, or 1 when the
\* detection failed, so it is at least 1; the driving function runs beside
\* exactly the workers 0..num_threads-1, and when its outcome is handed back
\* exactly those num_threads workers have finished.
C8_PoolSizing ==
    \A c \in Calls :
        /\ (IsPooled(kind[c]) /\ mpc[c] \notin {"idle", "new", "detect"})
               => /\ num_threads[c] >= 1
                  /\ detected[c].ok => num_threads[c] = detected[c].num
                  /\ ~detected[c].ok => num_threads[c] = 1
        /\ (IsPooled(kind[c]) /\ fcalls[c] > 0)
               => /\ Spawned(c) = 0..(num_threads[c] - 1)
                  /\ Cardinality(Spawned(c)) = num_threads[c]
        /\ (IsPooled(kind[c]) /\ fcalls[c] > 0 /\ mpc[c] \in HandedBack)
               => Cardinality({w \in Workers : wpc[c][w] = "finished"}) = num_threads[c]

\* A call whose detection failed has returned with its single worker joined.
C8_Witness ==
    \E c \in Calls :
        /\ mpc[c] = "returned" /\ IsPooled(kind[c]) /\ ~detected[c].ok
        /\ {w \in Workers : wpc[c][w] = "finished"} = {0}

\* C9 (single-thread kinds): a call on LocalExecutor or Rc<LocalExecutor>
\* never spawns a thread and never creates a WaitForStop; it invokes the
\* driving function at most once, exactly once by the time it hands control
\* back, and what it hands back is the driving function's own outcome.
C9_LocalKindsInline ==
    \A c \in Calls :
        kind[c] \in {"Rc<LocalExecutor>", "LocalExecutor"}
            => /\ Spawned(c) = {} /\ i[c] = 0
               /\ ~created[c] /\ ~stopped[c] /\ events[c] = {} /\ notified[c] = {}
               /\ mpc[c] \in {"call_f", "in_f", "returned", "panicked"}
               /\ fcalls[c] <= 1
               /\ mpc[c] \in {"in_f", "returned", "panicked"} => fcalls[c] = 1
               /\ mpc[c] \in HandedBack => (out[c] = result[c] /\ result[c] # None)

\* A LocalExecutor call has returned 42.
C9_Witness ==
    \E c \in Calls :
        kind[c] = "LocalExecutor" /\ mpc[c] = "returned" /\ out[c] = Ok("42")

\* C10 (result pass-through): whatever the kind, a call whose driving function
\* ran hands back exactly its outcome: its value by returning, its panic by
\* panicking.
C10_ResultPassThrough ==
    \A c \in Calls :
        /\ mpc[c] = "returned" => (result[c].tag = "Ok" /\ out[c] = result[c])
        /\ (mpc[c] = "panicked" /\ fcalls[c] > 0)
               => (result[c].tag = "Err" /\ out[c] = result[c])
        /\ (mpc[c] \in HandedBack /\ result[c].tag = "Ok") => mpc[c] = "returned"
        /\ (mpc[c] \in HandedBack /\ result[c].tag = "Err") => mpc[c] = "panicked"

\* An Executor call has returned the Err(e) its driving function returned.
C10_Witness ==
    \E c \in Calls :
        kind[c] = "Executor" /\ mpc[c] = "returned" /\ out[c] = Ok("Err(e)")

----------------------------------------------------------------------------
\* with_thread_pool's own stop() call has run to its end.
MainStopDone(c) == IsPooled(kind[c]) /\ mpc[c] \in AfterStop /\ result[c] # None

\* No waiter is suspended on a listener that was not notified.
NoWaiterBlocked(c) == \A w \in Workers : wpc[c][w] = "await" => w \in notified[c]

\* C11 (stop is idempotent): with two stop() calls on one signal, in sequence
\* or interleaved step by step, stopped goes from false to true once and never
\* back; as soon as either call has run to its end, and so when both have,
\* stopped is true and no waiter is suspended on an un-notified listener: the
\* state one call alone leaves.
C11_StopIdempotent ==
    /\ [](\A c \in Calls :
            /\ flips[c] <= 1
            /\ (MainStopDone(c) \/ spc[c] = "done")
                   => (stopped[c] /\ flips[c] = 1 /\ NoWaiterBlocked(c)))
    /\ [][\A c \in Calls : stopped[c] => stopped'[c]]_vars

\* Both stop() calls have run to their end, their steps interleaved, and the
\* waiters have all left wait().
C11_Witness ==
    \E c \in Calls :
        /\ MainStopDone(c) /\ spc[c] = "done"
        /\ stop_calls[c] = 2 /\ overlapped[c]
        /\ Spawned(c) # {}
        /\ \A w \in Spawned(c) : wpc[c][w] \in Left

\* C12 (the flag is monotonic): stopped is false from WaitForStop::new() until
\* with_thread_pool calls stop(), goes from false to true at most once, has
\* done so exactly once when a pooled call hands back the outcome of its
\* driving function, and no step of any thread sets it back to false.
C12_FlagMonotonic ==
    /\ [](\A c \in Calls :
            /\ flips[c] <= 1
            /\ stopped[c] <=> flips[c] = 1
            /\ mpc[c] \in {"new", "detect", "spawn", "in_f", "stop_store"} => ~stopped[c]
            /\ (IsPooled(kind[c]) /\ fcalls[c] > 0 /\ mpc[c] \in HandedBack)
                   => flips[c] = 1)
    /\ [][\A c \in Calls :
            /\ stopped[c] => stopped'[c]
            /\ (~created[c] /\ created'[c]) => ~stopped'[c]]_vars

\* A pooled call has returned: wait, stop, worker exit and join have all
\* happened, and the flag has flipped once and is still true.
C12_Witness ==
    \E c \in Calls :
        /\ mpc[c] = "returned" /\ Spawned(c) # {}
        /\ stopped[c] /\ flips[c] = 1 /\ stop_calls[c] = 1

\* C13 as claimed: when the driving function has finished, a task it spawned
\* and waited for has run to completion.
C13_TaskCompleted ==
    \A c \in Calls : (task[c] # "none" /\ result[c] # None) => task[c] = "done"

\* C13 (spawned tasks make progress), amended: for every kind, a driving
\* function suspended on the task it spawned is eventually released; by then
\* an awaited task has run to completion, and a task met at the barrier has
\* at least arrived there (it may still need a poll to finish).
C13_TaskProgress ==
    /\ \A c \in Calls : (mpc[c] = "f_wait") ~> (mpc[c] = "f_after")
    /\ [](\A c \in Calls :
            (mpc[c] = "f_after" \/ (task[c] # "none" /\ result[c] # None))
                => /\ waits[c] = "handle" => task[c] = "done"
                   /\ waits[c] = "barrier" => task[c] \in {"woken", "done"})

\* A pooled call has returned after its driving function met, at the barrier,
\* a task that a worker had run up to the barrier.
C13_Witness ==
    \E c \in Calls :
        /\ IsPooled(kind[c]) /\ mpc[c] = "returned"
        /\ waits[c] = "barrier" /\ task[c] = "woken"

\* C14 (cross-thread ordering), as claimed: whenever a wait() call has
\* returned, from either of its flag checks, the store of stop() happens-before
\* that return.
C14_StopHappensBefore ==
    \A c \in Calls, w \in Workers : wpc[c][w] \in Left => view[c][w] = "hb"

\* C15 (protocol order of with_thread_pool): the driving function is invoked
\* at most once and only beside all num_threads workers; stop() is called at
\* most once and only after the driving function has ended; once it has
\* ended, by a value or by a panic, the calling thread is in stop() or past
\* it; and its outcome is handed back only after the one stop() call.
C15_ProtocolOrder ==
    \A c \in Calls :
        IsPooled(kind[c])
            => /\ fcalls[c] <= 1
               /\ fcalls[c] > 0 => pool_at_call[c] = 0..(num_threads[c] - 1)
               /\ stop_calls[c] <= 1
               /\ stop_calls[c] > 0 => (result[c] # None /\ fcalls[c] = 1)
               /\ result[c] # None
                      => /\ mpc[c] \in {"stop_store", "stop_notify"} \cup AfterStop
                         /\ mpc[c] # "stop_store" => stop_calls[c] = 1
               /\ (mpc[c] \in HandedBack /\ fcalls[c] > 0)
                      => (stop_calls[c] = 1 /\ stopped[c] /\ out[c] = result[c])

\* A pooled call has returned 42 after one invocation of the driving
\* function beside the whole pool and one stop() call.
C15_Witness ==
    \E c \in Calls :
        /\ IsPooled(kind[c]) /\ mpc[c] = "returned" /\ out[c] = Ok("42")
        /\ fcalls[c] = 1 /\ stop_calls[c] = 1
        /\ pool_at_call[c] = 0..(num_threads[c] - 1)

\* C16 (store before notify): whenever a listener stands notified by stop(),
\* or stop() is past its store, stopped is true; and a waiter that listener
\* woke is back at the first flag check with the store visible, and its next
\* step returns from wait() without registering a listener again.
C16_StoreBeforeNotify ==
    /\ [](\A c \in Calls :
            /\ notified[c] # {} => stopped[c]
            /\ mpc[c] \in {"stop_notify", "match"} => stopped[c]
            /\ \A w \in Workers :
                   (wpc[c][w] = "check1" /\ view[c][w] = "hb")
                       => (stopped[c] /\ Loads(c, w) = {TRUE}))
    /\ [][\A c \in Calls, w \in Workers :
            (wpc[c][w] = "check1" /\ view[c][w] = "hb" /\ wpc'[c][w] # "check1")
                => (wpc'[c][w] = "returned" /\ events'[c] = events[c])]_vars

\* A waiter that suspended was woken by stop()'s notification and is about
\* to take its first flag check again.
C16_Witness ==
    \E c \in Calls, w \in Workers :
        /\ wpc[c][w] = "check1" /\ view[c][w] = "hb"
        /\ stop_calls[c] = 1 /\ w \notin events[c] \cup notified[c]

\* C17 (double check after register): a waiter at its second flag check or
\* suspended has its listener registered; once the notification step of
\* stop() has run, every suspended waiter's listener is notified; and a waiter
\* that registered after stop() stored the flag reads true at the re-check and
\* returns without suspending.
C17_DoubleCheck ==
    /\ [](\A c \in Calls :
            /\ \A w \in Workers :
                   /\ wpc[c][w] \in {"check2", "await"} => w \in events[c] \cup notified[c]
                   /\ (wpc[c][w] = "check2" /\ view[c][w] # "none")
                          => (stopped[c] /\ Loads(c, w) = {TRUE})
            /\ (stop_calls[c] > 0 /\ mpc[c] \in AfterStop) => NoWaiterBlocked(c))
    /\ [][\A c \in Calls, w \in Workers :
            (wpc[c][w] = "check2" /\ view[c][w] # "none" /\ wpc'[c][w] # "check2")
                => wpc'[c][w] = "returned"]_vars

\* stop() ran, store and notification, between a waiter's first flag check
\* and its registration; the waiter has registered since and is at the
\* re-check with a listener nobody will notify.
C17_Witness ==
    \E c \in Calls, w \in Workers :
        /\ wpc[c][w] = "check2" /\ w \in raced[c] /\ w \in events[c]
        /\ view[c][w] = "seen" /\ mpc[c] \in AfterStop

\* C18 (workers live through the driving function): while the driving
\* function of a pooled call is running, stop() has not been called and all
\* num_threads workers are inside wait(); and no worker has left wait() or
\* finished unless stop() has been called.
C18_WorkersAlive ==
    \A c \in Calls :
        /\ (IsPooled(kind[c]) /\ mpc[c] \in {"in_f", "f_spawned", "f_wait", "f_after"})
               => /\ stop_calls[c] = 0 /\ ~stopped[c]
                  /\ Spawned(c) = 0..(num_threads[c] - 1)
                  /\ \A w \in 0..(num_threads[c] - 1) : wpc[c][w] \in Waiting
        /\ \A w \in Workers : wpc[c][w] \in Left => (stop_calls[c] = 1 /\ stopped[c])

\* The driving function is running beside a full pool in which one worker is
\* suspended on its listener and another has not yet taken its first check.
C18_Witness ==
    \E c \in Calls :
        /\ IsPooled(kind[c]) /\ mpc[c] = "in_f" /\ num_threads[c] = MaxThreads
        /\ \E w \in Workers : wpc[c][w] = "await"
        /\ \E w \in Workers : wpc[c][w] = "check1"

\* C19 (one signal per invocation): every with_thread_pool invocation gets a
\* WaitForStop of its own that is not stopped until that invocation calls
\* stop(); a step that changes the flag or the listeners of one invocation's
\* signal is a step of that invocation and leaves the threads and the signal
\* of every other invocation as they were; and a worker leaves wait() only
\* when the stop() of its own invocation has stored.
C19_SignalPerCall ==
    /\ [](\A c \in Calls :
            /\ mpc[c] \in {"detect", "spawn", "in_f", "stop_store"}
                   => (created[c] /\ ~stopped[c] /\ notified[c] = {})
            /\ stopped[c] <=> (stop_calls[c] = 1 /\ mpc[c] \in {"stop_notify"} \cup AfterStop)
            /\ \A w \in Workers : wpc[c][w] \in Left => (stop_calls[c] = 1 /\ stopped[c]))
    /\ [][\A c \in Calls : \A d \in Calls \ {c} :
            (mpc'[c] # mpc[c] \/ wpc'[c] # wpc[c])
                => /\ stopped'[d] = stopped[d] /\ created'[d] = created[d]
                   /\ events'[d] = events[d] /\ notified'[d] = notified[d]
                   /\ wpc'[d] = wpc[d] /\ view'[d] = view[d] /\ mpc'[d] = mpc[d]]_vars

\* One invocation has stopped its signal, joined its worker and returned,
\* while the other is still running its driving function beside a worker
\* suspended on the other signal, which is not stopped.
C19_Witness ==
    \E c \in Calls : \E d \in Calls \ {c} :
        /\ mpc[c] = "returned" /\ stopped[c] /\ stop_calls[c] = 1
        /\ \E w \in Workers : wpc[c][w] = "finished"
        /\ mpc[d] = "in_f" /\ ~stopped[d]
        /\ \E w \in Workers : wpc[d][w] = "await" /\ w \in events[d]

====
